---------------------------- MODULE Spec2Model ----------------------------
(***************************************************************************)
(* Knockout bracket manager (src/app.py): the entrant registry, the match  *)
(* tree built by recursive halving, the AVL index from match id to tree    *)
(* node, the FIFO queue of ready matches, result reporting and the         *)
(* scheduler that advances winners into parent matches.                    *)
(*                                                                         *)
(* Python objects are modelled by handles: a Player is its position in the *)
(* roster (1..n), a MatchNode (with the Match it wraps) is the key of its  *)
(* record in the heap `nodes`, which is the match id it was created with.  *)
(* A missing object (Python None) is the handle 0.                         *)
(***************************************************************************)
EXTENDS Integers, Sequences, FiniteSets, TLC

VARIABLES mode, players, player_map, next_pid, next_mid, bracket_root,
          nodes, match_queue, avl_root, matches_played, n_ins, ref_map

vars == <<mode, players, player_map, next_pid, next_mid, bracket_root,
          nodes, match_queue, avl_root, matches_played, n_ins, ref_map>>

\* the session state the tournament operations work on
session == <<mode, players, player_map, next_pid, next_mid, bracket_root,
             nodes, match_queue, avl_root, matches_played>>

(***************************************************************************)
(* Bounds of the model.                                                    *)
(***************************************************************************)
\* largest roster that is registered
MaxPlayers == 5
\* cap on the matches-played counter when results are reported freely
MaxPlayed == 3
\* cap on the match-id counter when generation is called freely
MaxMid == 107
\* Insert calls made on the index when it is exercised on its own
MaxInserts == 6
\* keys offered to the index when it is exercised on its own: 1..MaxKey
MaxKey == 6

(***************************************************************************)
(* Program constants.                                                      *)
(***************************************************************************)
\* Python None, as a Player or MatchNode handle
None == 0
\* first entrant id (init_state)
FirstPid == 1000
\* first match id (init_state)
FirstMid == 100

\* names offered to register_player; the code only compares names for
\* equality and emptiness, so fresh names are offered in this fixed order
AllNames == <<"A", "B", "C", "D", "E", "F", "G", "H">>

\* (winner-side score, other score) pairs offered to update_match_generic
ScorePairs == {<<21, 15>>, <<21, 10>>}

max(a, b) == IF a >= b THEN a ELSE b

(***************************************************************************)
(* PART 1: data structures                                                 *)
(***************************************************************************)
\* class Player
Player(id, name) ==
    [id |-> id, name |-> name, wins |-> 0, losses |-> 0,
     score_for |-> 0, score_against |-> 0]

\* Player.get_pd
get_pd(p) == p.score_for - p.score_against

\* class Match wrapped by class MatchNode: one heap record
MatchNode(match_id, round_num) ==
    [match_id |-> match_id, player1 |-> None, player2 |-> None,
     winner |-> None, round |-> round_num, is_leaf |-> FALSE,
     player1_score |-> 0, player2_score |-> 0,
     left |-> None, right |-> None]

\* Queue.enqueue: a None pointer is ignored, anything else goes to the rear
enqueue(q, match_ptr) == IF match_ptr = None THEN q ELSE Append(q, match_ptr)

\* the empty AVL subtree
NilAVL == [nil |-> TRUE]

\* class AVLNode
AVLNode(key, match_ptr) ==
    [key |-> key, match_ptr |-> match_ptr, left |-> NilAVL, right |-> NilAVL,
     height |-> 1]

(***************************************************************************)
(* PART 3: AVL index                                                       *)
(***************************************************************************)
avl_h(n) == IF n = NilAVL THEN 0 ELSE n.height

avl_bal(n) == IF n = NilAVL THEN 0 ELSE avl_h(n.left) - avl_h(n.right)

\* a right rotation that forgets to recompute the heights
avl_rot_r_stale(y) ==
    LET x == y.left
        y2 == [y EXCEPT !.left = x.right]
    IN [x EXCEPT !.right = y2]

avl_rot_r(y) ==
    LET x == y.left
        T2 == x.right
        y1 == [y EXCEPT !.left = T2]
        y2 == [y1 EXCEPT !.height = 1 + max(avl_h(y1.left), avl_h(y1.right))]
        x1 == [x EXCEPT !.right = y2]
    IN [x1 EXCEPT !.height = 1 + max(avl_h(x1.left), avl_h(x1.right))]

\* a left rotation that drops the subtree T2 instead of re-attaching it
avl_rot_l_drop(x) ==
    LET y == x.right
        x1 == [x EXCEPT !.right = NilAVL]
        x2 == [x1 EXCEPT !.height = 1 + max(avl_h(x1.left), avl_h(x1.right))]
        y1 == [y EXCEPT !.left = x2]
    IN [y1 EXCEPT !.height = 1 + max(avl_h(y1.left), avl_h(y1.right))]

avl_rot_l(x) ==
    LET y == x.right
        T2 == y.left
        x1 == [x EXCEPT !.right = T2]
        x2 == [x1 EXCEPT !.height = 1 + max(avl_h(x1.left), avl_h(x1.right))]
        y1 == [y EXCEPT !.left = x2]
    IN [y1 EXCEPT !.height = 1 + max(avl_h(y1.left), avl_h(y1.right))]

\* the rebalancing tail of avl_ins, after the recursive insertion below node
avl_rebalance(node0, key) ==
    LET node == [node0 EXCEPT
                   !.height = 1 + max(avl_h(node0.left), avl_h(node0.right))]
        b == avl_bal(node)
    IN IF b > 1 /\ key < node.left.key THEN avl_rot_r(node)
       ELSE IF b < -1 /\ key > node.right.key THEN avl_rot_l(node)
       ELSE IF b > 1 /\ key > node.left.key
            THEN avl_rot_r([node EXCEPT !.left = avl_rot_l(node.left)])
       ELSE IF b < -1 /\ key < node.right.key
            THEN avl_rot_l([node EXCEPT !.right = avl_rot_r(node.right)])
       ELSE node

RECURSIVE avl_ins(_, _, _)
avl_ins(node, key, mptr) ==
    IF node = NilAVL THEN AVLNode(key, mptr)
    ELSE IF key < node.key
         THEN avl_rebalance([node EXCEPT !.left = avl_ins(node.left, key, mptr)], key)
    ELSE IF key > node.key
         THEN avl_rebalance([node EXCEPT !.right = avl_ins(node.right, key, mptr)], key)
    ELSE node

\* avl_find returns the node found, or NilAVL
RECURSIVE avl_find(_, _)
avl_find(node, key) ==
    IF node = NilAVL \/ node.key = key THEN node
    ELSE IF key < node.key THEN avl_find(node.left, key)
    ELSE avl_find(node.right, key)

(***************************************************************************)
(* PART 3: creation and registration                                       *)
(*                                                                         *)
(* The functions below read and write st.session_state; the part of it     *)
(* they touch is passed and returned as a record ss with the fields        *)
(* next_mid, nodes, avl_root, match_queue.                                 *)
(***************************************************************************)
\* create_match_node: returns the new node's handle with the changed state
create_match_node(ss, r) ==
    LET mid == ss.next_mid
    IN [node |-> mid,
        ss |-> [ss EXCEPT !.next_mid = mid + 1,
                          !.nodes = ss.nodes @@ (mid :> MatchNode(mid, r)),
                          !.avl_root = avl_ins(ss.avl_root, mid, mid)]]

\* a registration that does not look at the tournament mode
register_error_open(name) ==
    IF name = "" THEN "Name cannot be empty."
    ELSE IF name \in DOMAIN player_map THEN "Name already taken."
    ELSE ""

\* the three refusals of register_player, in the order the code tests them
register_error(name) ==
    IF mode # "None" THEN "Tournament already started."
    ELSE IF name = "" THEN "Name cannot be empty."
    ELSE IF name \in DOMAIN player_map THEN "Name already taken."
    ELSE ""

\* the parent built from two subtrees by a builder that never seeds it
make_parent_unseeded(ss0, left, right) ==
    LET c == create_match_node(ss0, 0)
    IN [node |-> c.node,
        ss |-> [c.ss EXCEPT !.nodes[c.node].left = left,
                            !.nodes[c.node].right = right]]

\* a builder that seeds a first-round match without putting it in the queue
make_parent_unqueued(ss0, left, right) ==
    LET c == create_match_node(ss0, 0)
        parent == c.node
        ss1 == [c.ss EXCEPT !.nodes[parent].left = left,
                            !.nodes[parent].right = right]
    IN IF ss1.nodes[left].is_leaf /\ ss1.nodes[right].is_leaf
       THEN [node |-> parent,
             ss |-> [ss1 EXCEPT
                       !.nodes[parent].player1 = ss1.nodes[left].player1,
                       !.nodes[parent].player2 = ss1.nodes[right].player1,
                       !.nodes[parent].round = 1]]
       ELSE [node |-> parent, ss |-> ss1]

\* create_bracket_rec, lines 223-230: the parent over two built subtrees
make_parent(ss0, left, right) ==
    LET c == create_match_node(ss0, 0)
        parent == c.node
        ss1 == [c.ss EXCEPT !.nodes[parent].left = left,
                            !.nodes[parent].right = right]
    IN IF ss1.nodes[left].is_leaf /\ ss1.nodes[right].is_leaf
       THEN [node |-> parent,
             ss |-> [ss1 EXCEPT
                       !.nodes[parent].player1 = ss1.nodes[left].player1,
                       !.nodes[parent].player2 = ss1.nodes[right].player1,
                       !.nodes[parent].round = 1,
                       !.match_queue = enqueue(ss1.match_queue, parent)]]
       ELSE [node |-> parent, ss |-> ss1]

\* create_bracket_rec; parts is 1-based here, so parts[s] of the code is
\* parts[s + 1]
RECURSIVE create_bracket_rec(_, _, _, _)
create_bracket_rec(ss, parts, s, e) ==
    IF s = e
    THEN LET c == create_match_node(ss, 1)
             leaf == c.node
         IN [node |-> leaf,
             ss |-> [c.ss EXCEPT !.nodes[leaf].is_leaf = TRUE,
                                 !.nodes[leaf].player1 = parts[s + 1]]]
    ELSE LET mid == (s + e) \div 2
             L == create_bracket_rec(ss, parts, s, mid)
             R == create_bracket_rec(L.ss, parts, mid + 1, e)
         IN make_parent(R.ss, L.node, R.node)

RECURSIVE fix_rounds(_, _, _, _)
fix_rounds(nd, node, depth, max_d) ==
    IF node = None THEN nd
    ELSE LET nd1 == IF ~nd[node].is_leaf
                    THEN [nd EXCEPT ![node].round = max_d - depth]
                    ELSE nd
             nd2 == fix_rounds(nd1, nd1[node].left, depth + 1, max_d)
         IN fix_rounds(nd2, nd2[node].right, depth + 1, max_d)

RECURSIVE get_depth(_, _)
get_depth(nd, node) ==
    IF node = None THEN 0
    ELSE 1 + max(get_depth(nd, nd[node].left), get_depth(nd, nd[node].right))

\* the depth handed to fix_rounds without the adjustment for deep trees
max_depth_unadjusted(nd, root) == get_depth(nd, root)

\* generate_ko, line 245: the max_d argument of fix_rounds
max_depth(nd, root) ==
    get_depth(nd, root) - (IF get_depth(nd, root) > 1 THEN 1 ELSE 0)

\* generate_ko, lines 245-246: the rounds are fixed in the tree b that
\* create_bracket_rec returned
fix_bracket(b) ==
    [root |-> b.node,
     ss |-> [b.ss EXCEPT
               !.nodes = fix_rounds(b.ss.nodes, b.node, 0,
                                    max_depth(b.ss.nodes, b.node))]]

\* generate_ko past its n < 2 test: the new root and the state it leaves,
\* the latter as a record with the fields of ss
generate_ko(n) ==
    fix_bracket(create_bracket_rec(
        [next_mid |-> next_mid, nodes |-> nodes, avl_root |-> avl_root,
         match_queue |-> << >>],
        [i \in 1..n |-> i], 0, n - 1))

(***************************************************************************)
(* PART 3: match updates                                                   *)
(***************************************************************************)
\* update_match_generic, lines 256-265, with the "already played" test of
\* line 255 left out: the result is recorded over whatever the match holds
record_result_unguarded(us, node, winner, s1, s2) ==
    LET m == us.nodes[node]
        loser == IF m.player1 = winner THEN m.player2 ELSE m.player1
        p1 == [us.players EXCEPT ![winner].wins = @ + 1]
        p2 == IF loser # None THEN [p1 EXCEPT ![loser].losses = @ + 1] ELSE p1
        p3 == [p2 EXCEPT ![winner].score_for = @ + s1]
        p4 == [p3 EXCEPT ![winner].score_against = @ + s2]
        p5 == IF loser # None THEN [p4 EXCEPT ![loser].score_for = @ + s2] ELSE p4
        p6 == IF loser # None THEN [p5 EXCEPT ![loser].score_against = @ + s1] ELSE p5
    IN [f |-> TRUE, l |-> loser,
        us |-> [nodes |-> [us.nodes EXCEPT
                     ![node].winner = winner,
                     ![node].player1_score = IF m.player1 = winner THEN s1 ELSE s2,
                     ![node].player2_score = IF m.player1 = winner THEN s2 ELSE s1],
                players |-> p6,
                matches_played |-> us.matches_played + 1]]

\* a recording that leaves the loser's record as it is
record_result_lossless(us, node, winner, s1, s2) ==
    LET m == us.nodes[node]
        loser == IF m.player1 = winner THEN m.player2 ELSE m.player1
        p1 == [us.players EXCEPT ![winner].wins = @ + 1]
        p3 == [p1 EXCEPT ![winner].score_for = @ + s1]
        p4 == [p3 EXCEPT ![winner].score_against = @ + s2]
    IN IF m.winner # None
       THEN [f |-> TRUE, l |-> None, us |-> us]
       ELSE [f |-> TRUE, l |-> loser,
             us |-> [nodes |-> [us.nodes EXCEPT
                          ![node].winner = winner,
                          ![node].player1_score = IF m.player1 = winner THEN s1 ELSE s2,
                          ![node].player2_score = IF m.player1 = winner THEN s2 ELSE s1],
                     players |-> p4,
                     matches_played |-> us.matches_played + 1]]

\* update_match_generic, lines 255-265: what it does at the node whose match
\* id is mid.  us holds the state it can change: nodes, players,
\* matches_played.
record_result(us, node, winner, s1, s2) ==
    IF us.nodes[node].winner # None
    THEN [f |-> TRUE, l |-> None, us |-> us]
    ELSE record_result_unguarded(us, node, winner, s1, s2)

\* update_match_generic: the pre-order walk for mid from node
RECURSIVE update_match_generic(_, _, _, _, _, _)
update_match_generic(us, node, mid, winner, s1, s2) ==
    IF node = None THEN [f |-> FALSE, l |-> None, us |-> us]
    ELSE IF us.nodes[node].match_id = mid
         THEN record_result(us, node, winner, s1, s2)
    ELSE LET L == update_match_generic(us, us.nodes[node].left, mid, winner, s1, s2)
         IN IF L.f THEN L
            ELSE update_match_generic(us, us.nodes[node].right, mid, winner, s1, s2)

\* update_match_generic, lines 252-254 and 266-268: the node its walk from
\* node stops at for the id mid, None when the walk finds none
RECURSIVE walk_find(_, _, _)
walk_find(nd, node, mid) ==
    IF node = None THEN None
    ELSE IF nd[node].match_id = mid THEN node
    ELSE LET l == walk_find(nd, nd[node].left, mid)
         IN IF l # None THEN l ELSE walk_find(nd, nd[node].right, mid)

\* a scheduler that puts the left child's winner into both slots
schedule_node_same(cs, node) ==
    LET m == cs.nodes[node]
    IN IF m.left # None /\ m.right # None
          /\ cs.nodes[m.left].winner # None /\ cs.nodes[m.right].winner # None
          /\ m.winner = None /\ m.player1 = None
       THEN [nodes |-> [cs.nodes EXCEPT
                          ![node].player1 = cs.nodes[m.left].winner,
                          ![node].player2 = cs.nodes[m.left].winner],
             match_queue |-> enqueue(cs.match_queue, node)]
       ELSE cs

\* a scheduler that fills the slots but never enqueues the match
schedule_node_silent(cs, node) ==
    LET m == cs.nodes[node]
    IN IF m.left # None /\ m.right # None
          /\ cs.nodes[m.left].winner # None /\ cs.nodes[m.right].winner # None
          /\ m.winner = None /\ m.player1 = None
       THEN [cs EXCEPT !.nodes[node].player1 = cs.nodes[m.left].winner,
                       !.nodes[node].player2 = cs.nodes[m.right].winner]
       ELSE cs

\* a scheduler that puts the match at the front of the queue
schedule_node_front(cs, node) ==
    LET m == cs.nodes[node]
    IN IF m.left # None /\ m.right # None
          /\ cs.nodes[m.left].winner # None /\ cs.nodes[m.right].winner # None
          /\ m.winner = None /\ m.player1 = None
       THEN [nodes |-> [cs.nodes EXCEPT
                          ![node].player1 = cs.nodes[m.left].winner,
                          ![node].player2 = cs.nodes[m.right].winner],
             match_queue |-> <<node>> \o cs.match_queue]
       ELSE cs

\* a scheduler that advances the first slot of each child, winner or not
schedule_node_first(cs, node) ==
    LET m == cs.nodes[node]
    IN IF m.left # None /\ m.right # None
          /\ cs.nodes[m.left].winner # None /\ cs.nodes[m.right].winner # None
          /\ m.winner = None /\ m.player1 = None
       THEN [nodes |-> [cs.nodes EXCEPT
                          ![node].player1 = cs.nodes[m.left].player1,
                          ![node].player2 = cs.nodes[m.right].player1],
             match_queue |-> enqueue(cs.match_queue, node)]
       ELSE cs

\* check_schedule, lines 273-277: what it does at node once both subtrees
\* have been walked.  cs holds the state it can change: nodes, match_queue.
schedule_node(cs, node) ==
    LET m == cs.nodes[node]
    IN IF m.left # None /\ m.right # None
          /\ cs.nodes[m.left].winner # None /\ cs.nodes[m.right].winner # None
          /\ m.winner = None /\ m.player1 = None
       THEN [nodes |-> [cs.nodes EXCEPT
                          ![node].player1 = cs.nodes[m.left].winner,
                          ![node].player2 = cs.nodes[m.right].winner],
             match_queue |-> enqueue(cs.match_queue, node)]
       ELSE cs

\* check_schedule: the post-order walk
RECURSIVE check_schedule(_, _)
check_schedule(cs, node) ==
    IF node = None \/ cs.nodes[node].is_leaf THEN cs
    ELSE LET c1 == check_schedule(cs, cs.nodes[node].left)
             c2 == check_schedule(c1, c1.nodes[node].right)
         IN schedule_node(c2, node)

\* Arena tab, lines 378-382: the queued nodes that can be played now
playable ==
    SelectSeq(match_queue,
              LAMBDA x : nodes[x].player1 # None /\ nodes[x].player2 # None
                         /\ nodes[x].winner = None)

(***************************************************************************)
(* PART 2: state after init_state, and the operations as actions           *)
(*                                                                         *)
(* n_ins and ref_map belong to the index exercised on its own: the number  *)
(* of Insert calls made, and the plain map holding the first value         *)
(* inserted under each key.  What a call returns is not kept in the state: *)
(* it is the value of the operator that models the function.               *)
(***************************************************************************)
Init ==
    /\ mode = "None"
    /\ players = << >>
    /\ player_map = << >>
    /\ next_pid = FirstPid
    /\ next_mid = FirstMid
    /\ bracket_root = None
    /\ nodes = << >>
    /\ match_queue = << >>
    /\ avl_root = NilAVL
    /\ matches_played = 0
    /\ n_ins = 0
    /\ ref_map = << >>

\* the names a caller offers: the empty name, a name already registered, or
\* the next unused one
OfferedNames ==
    {""} \cup {AllNames[i] : i \in 1..(IF Len(players) < Len(AllNames)
                                        THEN Len(players) + 1
                                        ELSE Len(AllNames))}

\* register_player(name)
RegisterPlayer(name) ==
    IF register_error(name) # ""
    THEN UNCHANGED vars
    ELSE /\ Len(players) < MaxPlayers
         /\ next_pid' = next_pid + 1
         /\ players' = Append(players, Player(next_pid, name))
         /\ player_map' = player_map @@ (name :> Len(players) + 1)
         /\ UNCHANGED <<mode, next_mid, bracket_root, nodes, match_queue,
                        avl_root, matches_played, n_ins, ref_map>>

\* generate_ko()
GenerateKo ==
    IF Len(players) < 2
    THEN UNCHANGED vars
    ELSE /\ \E g \in {generate_ko(Len(players))} :
               /\ match_queue' = g.ss.match_queue
               /\ next_mid' = g.ss.next_mid
               /\ nodes' = g.ss.nodes
               /\ avl_root' = g.ss.avl_root
               /\ bracket_root' = g.root
         /\ mode' = "Knockout"
         /\ UNCHANGED <<players, player_map, next_pid, matches_played,
                        n_ins, ref_map>>

\* the GENERATE BRACKET button, which is disabled once a mode is set
GenerateButton ==
    /\ mode = "None"
    /\ GenerateKo

\* the state update_match_generic can change
UpdState == [nodes |-> nodes, players |-> players,
             matches_played |-> matches_played]

\* update_match_generic(bracket_root, mid, winner, s1, s2)
ReportResult(mid, winner, s1, s2) ==
    /\ \E r \in {update_match_generic(UpdState, bracket_root, mid, winner, s1, s2)} :
          /\ nodes' = r.us.nodes
          /\ players' = r.us.players
          /\ matches_played' = r.us.matches_played
    /\ UNCHANGED <<mode, player_map, next_pid, next_mid, bracket_root,
                   match_queue, avl_root, n_ins, ref_map>>

\* check_schedule(bracket_root)
Propagate ==
    /\ \E c \in {check_schedule([nodes |-> nodes, match_queue |-> match_queue],
                                bracket_root)} :
          /\ nodes' = c.nodes
          /\ match_queue' = c.match_queue
    /\ UNCHANGED <<mode, players, player_map, next_pid, next_mid,
                   bracket_root, avl_root, matches_played, n_ins, ref_map>>

\* lines 406-409: the result is recorded and, on success, the schedule is
\* checked
confirm_result(mid, w_obj, s1, s2) ==
    LET r == update_match_generic(UpdState, bracket_root, mid, w_obj, s1, s2)
    IN IF r.f
       THEN [us |-> r.us,
             cs |-> check_schedule([nodes |-> r.us.nodes,
                                    match_queue |-> match_queue], bracket_root)]
       ELSE [us |-> r.us,
             cs |-> [nodes |-> r.us.nodes, match_queue |-> match_queue]]

\* the CONFIRM RESULT form of the Arena tab, lines 400-411, for a playable
\* match and a winner picked by name among its two entrants.  The form
\* shows playable[0]; here any playable entry k can be the one played.
PlayMatch(k, slot, s1, s2) ==
    /\ k \in 1..Len(playable)
    /\ LET m == nodes[playable[k]]
           winner_name == players[IF slot = 1 THEN m.player1 ELSE m.player2].name
       IN \E x \in {confirm_result(m.match_id, player_map[winner_name], s1, s2)} :
             /\ nodes' = x.cs.nodes
             /\ match_queue' = x.cs.match_queue
             /\ players' = x.us.players
             /\ matches_played' = x.us.matches_played
    /\ UNCHANGED <<mode, player_map, next_pid, next_mid, bracket_root,
                   avl_root, n_ins, ref_map>>

\* the RESET SYSTEM button: session_state.clear(), then init_state on rerun
ResetSystem ==
    /\ mode' = "None"
    /\ players' = << >>
    /\ player_map' = << >>
    /\ next_pid' = FirstPid
    /\ next_mid' = FirstMid
    /\ bracket_root' = None
    /\ nodes' = << >>
    /\ match_queue' = << >>
    /\ avl_root' = NilAVL
    /\ matches_played' = 0
    /\ UNCHANGED <<n_ins, ref_map>>

\* values stored in the index when it is exercised on its own
Ptrs == {1, 2}

\* avl_root = avl_ins(avl_root, key, mptr), with any key and value
AvlInsert(key, mptr) ==
    /\ n_ins < MaxInserts
    /\ avl_root' = avl_ins(avl_root, key, mptr)
    /\ n_ins' = n_ins + 1
    /\ ref_map' = IF key \in DOMAIN ref_map THEN ref_map
                  ELSE ref_map @@ (key :> mptr)
    /\ UNCHANGED <<mode, players, player_map, next_pid, next_mid, bracket_root,
                   nodes, match_queue, matches_played>>

(***************************************************************************)
(* Arguments offered to the operations                                     *)
(***************************************************************************)
\* the ids a caller names: every id handed out so far and one never used
OfferedMids == FirstMid..next_mid

\* the entrants in the slots of node x
SlotEntrants(x) == {nodes[x].player1, nodes[x].player2} \ {None}

\* the entrants of the roster
Entrants == 1..Len(players)

\* the roster position after p, wrapping round
NextEntrant(p) == IF p >= Len(players) THEN 1 ELSE p + 1

\* the winners a caller names for match mid: the entrants in its slots and
\* one entrant outside them, the one after its last filled slot
OfferedWinners(mid) ==
    IF mid \notin DOMAIN nodes THEN {1}
    ELSE SlotEntrants(mid)
         \cup {NextEntrant(IF nodes[mid].player2 # None THEN nodes[mid].player2
                           ELSE nodes[mid].player1)}

(***************************************************************************)
(* Specifications                                                          *)
(***************************************************************************)
\* the core operations called freely: any order, any match id, winners in
\* and outside the match; the counters are capped
Next ==
    \/ \E name \in OfferedNames : RegisterPlayer(name)
    \/ /\ next_mid + 2 * Len(players) - 1 <= MaxMid
       /\ GenerateKo
    \/ \E mid \in OfferedMids : \E w \in OfferedWinners(mid), sp \in ScorePairs :
          /\ players # << >>
          /\ ReportResult(mid, w, sp[1], sp[2])
          /\ matches_played' <= MaxPlayed
    \/ Propagate
    \/ ResetSystem

Spec == Init /\ [][Next]_vars

\* the application driven through its pages: registration, one generation,
\* results of playable matches with one of the two entrants as winner
NextPlay ==
    \/ \E name \in OfferedNames : RegisterPlayer(name)
    \/ GenerateButton
    \/ \E k \in 1..MaxPlayers, slot \in {1, 2}, sp \in ScorePairs :
          PlayMatch(k, slot, sp[1], sp[2])
    \/ ResetSystem

SpecPlay == Init /\ [][NextPlay]_vars

\* the score every result of a batch is reported with
BatchScore == <<21, 15>>

\* one generation, then results reported in batches: for any node of the
\* tree, with an entrant of one of its slots as winner, the schedule being
\* checked by a separate call
NextBatch ==
    \/ \E name \in OfferedNames : RegisterPlayer(name)
    \/ GenerateButton
    \/ \E mid \in DOMAIN nodes : \E w \in SlotEntrants(mid) :
          ReportResult(mid, w, BatchScore[1], BatchScore[2])
    \/ Propagate

SpecBatch == Init /\ [][NextBatch]_vars

\* the index on its own, under any sequence of insertions
NextIdx == \E key \in 1..MaxKey, mptr \in Ptrs : AvlInsert(key, mptr)

SpecIdx == Init /\ [][NextIdx]_vars

(***************************************************************************)
(* Vocabulary of the properties                                            *)
(***************************************************************************)
\* the nodes of the tree under x
RECURSIVE Subtree(_)
Subtree(x) ==
    IF x = None THEN {}
    ELSE {x} \cup Subtree(nodes[x].left) \cup Subtree(nodes[x].right)

\* the nodes of the bracket tree, those without children, and the others
Tree == Subtree(bracket_root)
LeafNodes == {x \in Tree : nodes[x].left = None /\ nodes[x].right = None}
MatchNodes == Tree \ LeafNodes

\* the entrants seeded below x, read left to right
RECURSIVE LeafSeq(_)
LeafSeq(x) ==
    IF x = None THEN << >>
    ELSE IF nodes[x].left = None /\ nodes[x].right = None
         THEN <<nodes[x].player1>>
    ELSE LeafSeq(nodes[x].left) \o LeafSeq(nodes[x].right)

Decided(x) == nodes[x].winner # None
BothSlots(x) == nodes[x].player1 # None /\ nodes[x].player2 # None

\* the queue positions of node x
QueuePos(q, x) == {i \in 1..Len(q) : q[i] = x}

\* the queued nodes of q that are playable when the heap is nd
PlayableIn(nd, q) ==
    {q[i] : i \in {j \in 1..Len(q) :
                     /\ nd[q[j]].player1 # None /\ nd[q[j]].player2 # None
                     /\ nd[q[j]].winner = None}}

\* what one check_schedule call would leave
Scheduled == check_schedule([nodes |-> nodes, match_queue |-> match_queue],
                            bracket_root)

\* what update_match_generic(bracket_root, mid, w, s1, s2) would return
Reported(mid, w, s1, s2) ==
    update_match_generic(UpdState, bracket_root, mid, w, s1, s2)

\* the roster is A, B, C, D and the bracket was generated once from the
\* fresh state, so that its nodes have the ids 100..106
FreshFour ==
    /\ Len(players) = 4
    /\ \A i \in 1..4 : players[i].name = AllNames[i]
    /\ mode = "Knockout"
    /\ next_mid = FirstMid + 7
    /\ bracket_root = FirstMid + 6

\* entrant p has been reported winner once, with the scores sf and sa
WonOnce(p, sf, sa) ==
    /\ players[p].wins = 1
    /\ players[p].score_for = sf
    /\ players[p].score_against = sa

\* exactly two results have been recorded: A won match a 21-15 and C won
\* match b 21-10
TwoReported(a, b) ==
    /\ FreshFour
    /\ matches_played = 2
    /\ nodes[a].winner = 1 /\ WonOnce(1, 21, 15)
    /\ nodes[b].winner = 3 /\ WonOnce(3, 21, 10)

(***************************************************************************)
(* C1: the four-entrant scenario                                           *)
(***************************************************************************)
\* C1 as stated: with roster A,B,C,D generated from the fresh state, after
\* ReportResult(100, A, 21, 15) and ReportResult(101, C, 21, 10) one
\* Propagate leaves the root with the slots A and C.
C1_AsStated ==
    TwoReported(100, 101) =>
        /\ Scheduled.nodes[bracket_root].player1 = 1
        /\ Scheduled.nodes[bracket_root].player2 = 3

\* C1 amended: the ids 100 and 101 are the leaves of A and B; the matches
\* A vs B and C vs D are 102 and 105, the final is 106.  After
\* ReportResult(102, A, 21, 15) and ReportResult(105, C, 21, 10) one
\* Propagate leaves the root 106 with the slots A and C; reporting the final
\* with winner A then makes the root decided with winner A and leaves no
\* queue entry with both slots filled and no winner.
C1_Scenario ==
    TwoReported(102, 105) =>
        /\ bracket_root = 106
        /\ Scheduled.nodes[106].player1 = 1
        /\ Scheduled.nodes[106].player2 = 3
        /\ (nodes[106].player1 = 1 /\ nodes[106].player2 = 3) =>
              \A sp \in ScorePairs :
                 LET r == Reported(106, 1, sp[1], sp[2])
                 IN /\ r.f
                    /\ r.us.nodes[106].winner = 1
                    /\ PlayableIn(r.us.nodes, match_queue) = {}

\* the scenario has been played to its end: A beat B, C beat D, the final
\* was scheduled and A won it
C1_Witness ==
    /\ FreshFour
    /\ matches_played = 3
    /\ nodes[102].winner = 1 /\ nodes[105].winner = 3
    /\ nodes[106].player1 = 1 /\ nodes[106].player2 = 3
    /\ nodes[106].winner = 1
    /\ playable = << >>

(***************************************************************************)
(* C2: shape of the generated tree                                         *)
(***************************************************************************)
\* C2: a generated bracket over n >= 2 entrants has exactly n leaves, one
\* per entrant, and n - 1 other nodes; the root's round is greater than the
\* round of every other node, except for n = 2 where the rounds are equal.
C2_Shape ==
    bracket_root # None =>
        LET n == Len(players)
        IN /\ n >= 2
           /\ Cardinality(LeafNodes) = n
           /\ \A x \in Tree : nodes[x].is_leaf <=> x \in LeafNodes
           /\ {nodes[x].player1 : x \in LeafNodes} = 1..n
           /\ Cardinality(MatchNodes) = n - 1
           /\ \A x \in Tree \ {bracket_root} :
                 IF n = 2
                 THEN nodes[bracket_root].round = nodes[x].round
                 ELSE nodes[bracket_root].round > nodes[x].round

\* brackets of two entrants and of more than two are generated
C2_Witness ==
    /\ bracket_root # None
    /\ Len(players) >= 4
    /\ nodes[bracket_root].round = 2

(***************************************************************************)
(* C3: a decided match is immutable                                        *)
(***************************************************************************)
\* C3: ReportResult on a decided match of the tree, with any winner and any
\* scores, reports success and changes nothing (match, entrants, counter;
\* the queue is not in its reach); and no step other than a reset changes
\* the record of a decided match.
C3_DecidedImmutable ==
    /\ [](\A mid \in Tree : \A w \in Entrants, sp \in ScorePairs :
            Decided(mid) =>
                LET r == Reported(mid, w, sp[1], sp[2])
                IN r.f /\ r.l = None /\ r.us = UpdState)
    /\ [][\A x \in DOMAIN nodes \cap DOMAIN nodes' :
            Decided(x) => nodes'[x] = nodes[x]]_vars

\* three results have been recorded and a match of two entrants is decided
C3_Witness ==
    /\ matches_played = 3
    /\ \E x \in MatchNodes : Decided(x) /\ BothSlots(x)

(***************************************************************************)
(* C4: a winner outside the match                                          *)
(***************************************************************************)
\* C4: ReportResult on an undecided match whose two slots are filled, with a
\* winner that is in neither slot, fails and leaves the state unchanged.
C4_InvalidWinnerRejected ==
    \A mid \in Tree : \A w \in Entrants, sp \in ScorePairs :
        (~Decided(mid) /\ BothSlots(mid) /\ w \notin SlotEntrants(mid)) =>
            LET r == Reported(mid, w, sp[1], sp[2])
            IN ~r.f /\ r.us = UpdState

(***************************************************************************)
(* C5: generating twice                                                    *)
(***************************************************************************)
\* C5: a GenerateBracket call made once the tournament is generated changes
\* neither the tree, the queue, the match-id counter nor the index.
C5_SecondGenerateRefused ==
    [][(mode = "Knockout" /\ GenerateKo) =>
          UNCHANGED <<bracket_root, nodes, match_queue, next_mid, avl_root>>]_vars

(***************************************************************************)
(* C6: the champion is the entrant that won its path                       *)
(***************************************************************************)
\* the matches entrant e has to win: the nodes above its leaf
PathMatches(e) ==
    {x \in MatchNodes : \E i \in 1..Len(LeafSeq(x)) : LeafSeq(x)[i] = e}

WinsPath(e) == \A x \in PathMatches(e) : nodes[x].winner = e

\* e has lost none of the matches of its path
Unbeaten(e) == \A x \in PathMatches(e) : nodes[x].winner \in {None, e}

\* C6: when results are reported only for playable matches, with a winner
\* from the match's slots and the schedule checked after each, an entrant is
\* the root's winner exactly if it is the winner of every match of its
\* path; and an entrant that wins every match it gets to play becomes the
\* root's winner: once no match is left to play, an unbeaten entrant is the
\* champion.
C6_OnlyByWinning ==
    bracket_root # None =>
        \A e \in Entrants :
            /\ nodes[bracket_root].winner = e <=> WinsPath(e)
            /\ (playable = << >> /\ Unbeaten(e)) => nodes[bracket_root].winner = e

(***************************************************************************)
(* C7: one schedule check after a whole round                              *)
(***************************************************************************)
\* x is in the queue q
Queued(q, x) == QueuePos(q, x) # {}

\* every node of the tree with round number r is decided
RoundReported(r) == \A x \in Tree : nodes[x].round = r => Decided(x)

RECURSIVE Keys(_)
Keys(t) == IF t = NilAVL THEN {} ELSE {t.key} \cup Keys(t.left) \cup Keys(t.right)

RECURSIVE TrueHeight(_)
TrueHeight(t) ==
    IF t = NilAVL THEN 0 ELSE 1 + max(TrueHeight(t.left), TrueHeight(t.right))

\* a search tree whose stored heights are the true ones and whose balance
\* factors lie in -1..1
RECURSIVE WellFormed(_)
WellFormed(t) ==
    t = NilAVL \/
        /\ \A k \in Keys(t.left) : k < t.key
        /\ \A k \in Keys(t.right) : k > t.key
        /\ t.height = TrueHeight(t)
        /\ TrueHeight(t.left) - TrueHeight(t.right) \in -1..1
        /\ WellFormed(t.left)
        /\ WellFormed(t.right)

\* ceil(1.44 * log2(N + 2)): the least h with 2^(h / 1.44) >= N + 2, where
\* 2^(2/1.44) = 2.62, 2^(3/1.44) = 4.24, 2^(4/1.44) = 6.86,
\* 2^(5/1.44) = 11.1, 2^(6/1.44) = 17.96, 2^(7/1.44) = 29.05
HeightBound(N) ==
    IF N + 2 <= 2 THEN 2
    ELSE IF N + 2 <= 4 THEN 3
    ELSE IF N + 2 <= 6 THEN 4
    ELSE IF N + 2 <= 11 THEN 5
    ELSE IF N + 2 <= 17 THEN 6
    ELSE 7

\* C8: after N insertions of any keys in any order the index is a search
\* tree with every balance factor in -1..1 and every stored height true,
\* and its height is at most ceil(1.44 * log2(N + 2)).
C8_Balanced ==
    /\ WellFormed(avl_root)
    /\ TrueHeight(avl_root) <= HeightBound(n_ins)

\* the index holds five keys or more at height 3
C8_Witness ==
    /\ Cardinality(Keys(avl_root)) >= 5
    /\ avl_h(avl_root) = 3

\* C9: Find returns the value of the first Insert made with the key and
\* reports absence for a key never inserted; an Insert with a key that is
\* present leaves the tree as it is.
C9_FirstWriteWins ==
    /\ \A k \in 1..MaxKey :
          IF k \in DOMAIN ref_map
          THEN /\ avl_find(avl_root, k) # NilAVL
               /\ avl_find(avl_root, k).key = k
               /\ avl_find(avl_root, k).match_ptr = ref_map[k]
          ELSE avl_find(avl_root, k) = NilAVL
    /\ \A k \in DOMAIN ref_map : \A v \in Ptrs :
          avl_ins(avl_root, k, v) = avl_root

\* a key was inserted again after the tree had grown by rotations
C9_Witness ==
    /\ Cardinality(DOMAIN ref_map) >= 4
    /\ n_ins > Cardinality(DOMAIN ref_map)
    /\ \E k \in DOMAIN ref_map : ref_map[k] = 2

(***************************************************************************)
(* C10: halving by roster order                                            *)
(***************************************************************************)
\* the tree under x is the one built by floor-midpoint halving over the
\* entrants s..e (counted from 0 as in the roster list)
RECURSIVE Halved(_, _, _)
Halved(x, s, e) ==
    /\ x # None
    /\ IF s = e
       THEN /\ nodes[x].is_leaf
            /\ nodes[x].player1 = s + 1
            /\ nodes[x].left = None /\ nodes[x].right = None
       ELSE /\ ~nodes[x].is_leaf
            /\ Halved(nodes[x].left, s, (s + e) \div 2)
            /\ Halved(nodes[x].right, (s + e) \div 2 + 1, e)

\* C10: the bracket is the floor-midpoint halving of the roster, its leaves
\* read left to right are the roster; and the bracket generated for three
\* entrants has a pending root, the match A vs B (slots filled, queued) as
\* its left child and the leaf of C as its right child.
C10_Halving ==
    bracket_root # None =>
        /\ Halved(bracket_root, 0, Len(players) - 1)
        /\ LeafSeq(bracket_root) = [i \in 1..Len(players) |-> i]
        /\ (Len(players) = 3 /\ matches_played = 0) =>
              LET root == nodes[bracket_root]
              IN /\ root.player1 = None /\ root.player2 = None
                 /\ root.winner = None
                 /\ nodes[root.left].player1 = 1
                 /\ nodes[root.left].player2 = 2
                 /\ ~nodes[root.left].is_leaf
                 /\ match_queue = <<root.left>>
                 /\ nodes[root.right].is_leaf
                 /\ nodes[root.right].player1 = 3
                 /\ nodes[root.right].player2 = None

\* a bracket of three entrants has just been generated
C10_Witness ==
    /\ bracket_root # None
    /\ Len(players) = 3
    /\ matches_played = 0
    /\ match_queue # << >>

(***************************************************************************)
(* C11: registration is closed by generation, names and ids are unique     *)
(***************************************************************************)
\* the names of the roster
RosterNames == {players[i].name : i \in Entrants}

\* no two roster entries share a name or an id, and the name map leads from
\* each name to its entry
RosterDistinct ==
    /\ \A i, j \in Entrants :
          i # j => /\ players[i].name # players[j].name
                   /\ players[i].id # players[j].id
    /\ DOMAIN player_map = RosterNames
    /\ \A i \in Entrants : player_map[players[i].name] = i

\* C11: once a bracket is generated every RegisterEntrant call is refused
\* and changes neither the roster, the name map nor the entrant-id counter;
\* before generation a call with a registered name is refused and leaves the
\* roster as it is; the roster never holds two entrants with the same name
\* or the same id.
C11_RegistrationClosed ==
    /\ [](\A name \in OfferedNames :
             (bracket_root # None \/ name \in RosterNames) =>
                 register_error(name) # "")
    /\ []RosterDistinct
    /\ [][\A name \in OfferedNames :
             ((bracket_root # None \/ name \in RosterNames)
                 /\ RegisterPlayer(name)) =>
                 UNCHANGED <<players, player_map, next_pid>>]_vars

\* a bracket over three entrants is generated, a result is recorded, and
\* the registered names, the empty name and a new name are all refused
C11_Witness ==
    /\ bracket_root # None
    /\ Len(players) = 3
    /\ matches_played >= 1
    /\ \A name \in OfferedNames : register_error(name) # ""
    /\ "D" \in OfferedNames

(***************************************************************************)
(* C12: the tournament runs to completion                                  *)
(***************************************************************************)
\* C12: when the consumer plays matches of the ready list only, with one of
\* the two slots as winner and the schedule checked after each, a generated
\* bracket whose ready list is empty has a decided root.
C12_EmptyListMeansDone ==
    (bracket_root # None /\ playable = << >>) => Decided(bracket_root)

(***************************************************************************)
(* C13: round numbers                                                      *)
(***************************************************************************)
\* the children of x that are matches themselves
ChildMatches(x) == {nodes[x].left, nodes[x].right} \cap MatchNodes

\* x is a first-round match: both its children are leaves
OverLeaves(x) ==
    /\ x \in MatchNodes
    /\ nodes[x].left \in LeafNodes
    /\ nodes[x].right \in LeafNodes

\* C13: in a generated bracket every match over two leaves has round
\* number 1, and the round number of every match is greater than that of
\* each child that is a match.
C13_Rounds ==
    bracket_root # None =>
        /\ \A x \in MatchNodes : OverLeaves(x) => nodes[x].round = 1
        /\ \A x \in MatchNodes : \A c \in ChildMatches(x) :
              nodes[c].round < nodes[x].round

(***************************************************************************)
(* C14: pending, ready, decided                                            *)
(***************************************************************************)
\* C14: under any ReportResult calls (any id, winners in and outside the
\* match) and Propagate calls, a match (leaves set aside) whose winner is
\* set has both slots filled and its winner in one of them, and no step
\* takes a match whose slots are not both filled to one whose winner is set.
C14_Lifecycle ==
    /\ [](\A x \in MatchNodes :
             Decided(x) => BothSlots(x) /\ nodes[x].winner \in SlotEntrants(x))
    /\ [][\A x \in MatchNodes :
             (x \in DOMAIN nodes' /\ ~BothSlots(x) /\ ~Decided(x)) =>
                 nodes'[x].winner = None]_vars

(***************************************************************************)
(* C15: the queue holds exactly the playable matches                       *)
(***************************************************************************)
\* the nodes of the tree with both slots filled and no winner
ReadyNodes == {x \in Tree : BothSlots(x) /\ ~Decided(x)}

\* C15: in a generated bracket, under any ReportResult and Propagate calls,
\* a node of the tree has both slots filled and no winner exactly if it is
\* a queue entry without winner; every queue entry is a node of the tree
\* with both slots filled; so the filtered queue lists the ready nodes.
C15_QueueIsPlayable ==
    bracket_root # None =>
        /\ \A x \in Tree :
              (BothSlots(x) /\ ~Decided(x))
                  <=> (Queued(match_queue, x) /\ ~Decided(x))
        /\ \A i \in 1..Len(match_queue) :
              match_queue[i] \in Tree /\ BothSlots(match_queue[i])
        /\ {playable[i] : i \in 1..Len(playable)} = ReadyNodes

\* two first-round results are in, the schedule check has queued the match
\* above them, which is ready, behind the two decided entries
C15_Witness ==
    /\ bracket_root # None
    /\ Len(match_queue) = 3
    /\ Decided(match_queue[1]) /\ Decided(match_queue[2])
    /\ match_queue[3] = bracket_root
    /\ ReadyNodes = {bracket_root}

(***************************************************************************)
(* C16: the queue is append-only                                           *)
(***************************************************************************)
\* p is an initial part of q
IsPrefix(p, q) == Len(p) <= Len(q) /\ \A i \in 1..Len(p) : p[i] = q[i]

\* no node of the tree has two decided children and its own slots empty
NothingToSchedule ==
    \A x \in MatchNodes :
        ~(/\ Decided(nodes[x].left) /\ Decided(nodes[x].right)
          /\ nodes[x].player1 = None /\ nodes[x].player2 = None)

\* C16: as long as the bracket is the one generated (no step that builds a
\* new tree or resets), every step leaves the old queue as an initial part
\* of the new one; no node is in the queue twice; and a Propagate call
\* made when no node has two decided children and empty slots changes
\* neither the queue nor the matches (the rest is out of its reach).
C16_AppendOnly ==
    /\ [][(bracket_root # None /\ bracket_root' = bracket_root) =>
             IsPrefix(match_queue, match_queue')]_vars
    /\ [](\A i, j \in 1..Len(match_queue) :
             i # j => match_queue[i] # match_queue[j])
    /\ []((bracket_root # None /\ NothingToSchedule) =>
             Scheduled = [nodes |-> nodes, match_queue |-> match_queue])

\* the schedule check has appended the root behind an earlier entry, the
\* root is decided and nothing is left to schedule
C16_Witness ==
    /\ bracket_root # None
    /\ Len(match_queue) >= 2
    /\ match_queue[Len(match_queue)] = bracket_root
    /\ Decided(bracket_root)
    /\ NothingToSchedule

(***************************************************************************)
(* C17: the index and the tree walk                                        *)
(***************************************************************************)
\* the node avl_find yields for id, None when the index has no such key
IndexFind(id) ==
    IF avl_find(avl_root, id) = NilAVL THEN None
    ELSE avl_find(avl_root, id).match_ptr

\* C17: after any GenerateBracket, ReportResult and Propagate calls, for
\* every id the index and the walk from the bracket root find the same node
\* or both find none, and every node of the tree is indexed under its id.
C17_IndexAgreesWithWalk ==
    /\ \A id \in OfferedMids :
          IndexFind(id) = walk_find(nodes, bracket_root, id)
    /\ \A x \in Tree : IndexFind(nodes[x].match_id) = x

(***************************************************************************)
(* C18: what a successful report changes                                   *)
(***************************************************************************)
\* the entrant in the slot of x that w does not occupy (the second slot
\* when w is in the first)
OtherSlot(x, w) ==
    IF nodes[x].player1 = w THEN nodes[x].player2 ELSE nodes[x].player1

\* entrant p's record after w beat l by s1 to s2
AfterResult(p, w, l, s1, s2) ==
    [players[p] EXCEPT
       !.wins = @ + (IF p = w THEN 1 ELSE 0),
       !.losses = @ + (IF p = l THEN 1 ELSE 0),
       !.score_for = @ + (IF p = w THEN s1 ELSE 0) + (IF p = l THEN s2 ELSE 0),
       !.score_against = @ + (IF p = w THEN s2 ELSE 0) + (IF p = l THEN s1 ELSE 0)]

\* match x's record after w won it by s1 to s2
AfterWin(x, w, s1, s2) ==
    [nodes[x] EXCEPT
       !.winner = w,
       !.player1_score = IF nodes[x].player1 = w THEN s1 ELSE s2,
       !.player2_score = IF nodes[x].player1 = w THEN s2 ELSE s1]

\* C18: ReportResult(id, w, s1, s2) on a ready match with w in one slot and
\* l in the other succeeds, returns l, and changes exactly this: the
\* match's winner is w and its slot scores are s1 for w and s2 for l; w has
\* one more win, s1 more points for and s2 more against; l has one more
\* loss, s2 more points for and s1 more against; matches-played is one
\* more.  Every other match and entrant is as before, and the step that
\* records a result leaves the queue and the rest of the state as they are.
C18_ReportFrame ==
    /\ [](\A x \in ReadyNodes : \A w \in SlotEntrants(x), sp \in ScorePairs :
            LET r == Reported(nodes[x].match_id, w, sp[1], sp[2])
                l == OtherSlot(x, w)
            IN /\ r.f
               /\ r.l = l
               /\ r.us.matches_played = matches_played + 1
               /\ r.us.nodes = [nodes EXCEPT ![x] = AfterWin(x, w, sp[1], sp[2])]
               /\ r.us.players =
                     [p \in Entrants |-> AfterResult(p, w, l, sp[1], sp[2])])
    /\ [][matches_played' = matches_played + 1 =>
             UNCHANGED <<match_queue, bracket_root, avl_root, mode,
                         player_map, next_pid, next_mid>>]_vars

\* one result is recorded: the entrant of the second slot won a match by
\* 21 to 10, and winner and loser carry the result
C18_Witness ==
    /\ matches_played = 1
    /\ \E x \in MatchNodes :
          /\ BothSlots(x) /\ nodes[x].player1 # nodes[x].player2
          /\ nodes[x].winner = nodes[x].player2
          /\ nodes[x].player2_score = 21 /\ nodes[x].player1_score = 10
          /\ players[nodes[x].player2] =
                [players[nodes[x].player2] EXCEPT !.wins = 1, !.losses = 0,
                    !.score_for = 21, !.score_against = 10]
          /\ players[nodes[x].player1] =
                [players[nodes[x].player1] EXCEPT !.wins = 0, !.losses = 1,
                    !.score_for = 10, !.score_against = 21]

(***************************************************************************)
(* C19: single elimination                                                 *)
(***************************************************************************)
\* the wins, and the losses, of the first k entrants of the roster
RECURSIVE TotalWins(_)
TotalWins(k) == IF k = 0 THEN 0 ELSE players[k].wins + TotalWins(k - 1)

RECURSIVE TotalLosses(_)
TotalLosses(k) == IF k = 0 THEN 0 ELSE players[k].losses + TotalLosses(k - 1)

\* every entrant has at most one loss, and the counter equals the number
\* of decided nodes, the sum of the wins and the sum of the losses
OneLossAndCounts ==
    /\ \A p \in Entrants : players[p].losses <= 1
    /\ matches_played = Cardinality({x \in Tree : Decided(x)})
    /\ matches_played = TotalWins(Len(players))
    /\ matches_played = TotalLosses(Len(players))

\* no entrant with a loss is in a slot of an undecided node of S
LosersAreOut(S) ==
    \A x \in S : ~Decided(x) => \A p \in SlotEntrants(x) : players[p].losses = 0

\* C19 as stated, the leaves being match records like the others: when
\* only ready matches are reported, with a winner from their slots and the
\* schedule checked after each, every entrant has at most one loss, no
\* entrant with a loss is in a slot of an undecided match, and the counter
\* equals the decided matches, the wins and the losses.
C19_AsStated ==
    OneLossAndCounts /\ LosersAreOut(Tree)

\* C19 amended: the same, for the undecided matches that are not leaves; an
\* entrant stays in the slot of its own leaf, which is never decided.
C19_SingleElimination ==
    OneLossAndCounts /\ LosersAreOut(MatchNodes)

\* a bracket of four entrants is played to its end: three entrants have
\* one loss each and the champion has two wins
C19_Witness ==
    /\ bracket_root # None
    /\ Len(players) = 4
    /\ Decided(bracket_root)
    /\ Cardinality({p \in Entrants : players[p].losses = 1}) = 3
    /\ players[nodes[bracket_root].winner].wins = 2
    /\ players[nodes[bracket_root].winner].losses = 0

=============================================================================
